---- MODULE Spec2Model ----
(***************************************************************************)
(* A model of the yang command (src/yang.go): the format registry, the     *)
(* trace wrapper around the run, the three input modes (named module,      *)
(* file list, standard input), semantic processing, the selection of the   *)
(* top-level modules and the call of the formatter.                        *)
(*                                                                         *)
(* Strings that the program only compares or sorts are numbered in         *)
(* sort.Strings order: format names and module names are naturals, and     *)
(* n < m stands for "n sorts before m".                                    *)
(*                                                                         *)
(* The command is run twice on the same inputs (run = 1, then run = 2) so  *)
(* that properties relating two runs are state predicates.                 *)
(***************************************************************************)
EXTENDS Integers, Sequences, FiniteSets, TLC

\* Bounds of the model.
MaxArgs == 2     \* positional arguments on the command line
MaxErrs == 2     \* errors in the batch ms.Process returns

\* The format names a plugin may register (1 is "tree", the default).
FormatNames == {1, 2}
\* The values of --format: the names above and a name no plugin registers.
RequestedFormats == FormatNames \cup {Cardinality(FormatNames) + 1}
\* The module names schema files may define.
ModuleNames == {1, 2}
\* The .yang files on disk: file f defines one module, named FileModule[f],
\* in a revision of its own; 0 marks a file that does not read or parse.
FileModule == <<1, 2, 1, 0>>
Files == 1..Len(FileModule)
\* The sources that are not files of the argument list.
StdinSource == 0            \* "<STDIN>"
PathSource == 0 - 1         \* the file found for a module name on yang.Path

VARIABLES
  \* the registry and the command line (fixed during a run)
  formatters,   \* var formatters: the registered format names
  format,       \* --format
  traceP,       \* --trace: "" (not given), "ok" (can be created), "bad"
  help,         \* --help
  files,        \* getopt.Args()
  stdinData,    \* standard input: the module name it defines, 0 if malformed
  semErrs,      \* the number of errors semantic processing finds
  pathHas,      \* whether yang.Path holds a file for the named module
  \* the state of the run
  pc,           \* position in main
  formats,      \* the sorted format names
  stop,         \* var stop: "os.Exit" or "traceStop" (the closure of line 102)
  deferred,     \* whether trace.Stop is deferred
  tracing,      \* whether the runtime trace is running
  ms,           \* ms.Modules: the Module records loaded
  idx,          \* index of the next file of the file loop
  todo,         \* the modules the range loop has not visited yet
  mods,         \* mods: name -> Module
  names,        \* names
  entries,      \* entries
  \* what the run did
  reads,        \* the sources read or parsed, in order
  processCalls, \* calls of ms.Process by main
  invoked,      \* calls of a registered formatter's f
  stdout,       \* what was written to os.Stdout
  stderr,       \* the lines written to os.Stderr
  exitCode,     \* exit status, -1 while running
  \* the two runs
  run,          \* 1 or 2
  first         \* what run 1 produced

inputs == <<formatters, format, traceP, help, files, stdinData, semErrs, pathHas>>
locals == <<formats, ms, idx, todo, mods, names, entries>>
traceState == <<stop, deferred, tracing>>
effects == <<reads, processCalls, invoked, stdout, stderr>>
vars == <<inputs, pc, locals, traceState, effects, exitCode, run, first>>

----------------------------------------------------------------------------
\* Helpers

Range(s) == {s[x] : x \in DOMAIN s}

\* All orders in which a range loop may visit the elements of a map.
Orders(S) == {s \in [1..Cardinality(S) -> S] : Range(s) = S}

Line(kind, arg) == [kind |-> kind, arg |-> arg]

\* sort.Strings, as an insertion sort.
RECURSIVE Insert(_, _)
Insert(s, x) ==
  IF s = <<>> THEN <<x>>
  ELSE IF x <= Head(s) THEN <<x>> \o s
  ELSE <<Head(s)>> \o Insert(Tail(s), x)

SortStringsNoop(s) == s

RECURSIVE SortStrings(_)
SortStrings(s) ==
  IF s = <<>> THEN <<>> ELSE Insert(SortStrings(Tail(s)), Head(s))

\* strings.HasSuffix(a, ".yang")
HasSuffixYang(a) == a.yang

FileArg == {[name |-> f, yang |-> TRUE] : f \in Files}
ModuleArg == {[name |-> n, yang |-> FALSE] : n \in ModuleNames}
SeqsUpTo(S, k) == UNION {[1..j -> S] : j \in 0..k}
\* [FILE ...] and MODULE [FILE ...]
ArgLists ==
  SeqsUpTo(FileArg, MaxArgs)
    \cup {<<a>> \o s : a \in ModuleArg, s \in SeqsUpTo(FileArg, MaxArgs - 1)}

----------------------------------------------------------------------------
\* The schema library (pkg/yang), as far as main relies on it.

NewModules == {}

Module(n, src) == [Name |-> n, Source |-> src]

\* ms.Read(name): the file's module is added, or an error is returned and
\* nothing is added (unreadable or malformed file, or a module loaded before).
Read(set, f) ==
  IF FileModule[f] = 0 \/ Module(FileModule[f], f) \in set
  THEN [ms |-> set, err |-> TRUE]
  ELSE [ms |-> set \cup {Module(FileModule[f], f)}, err |-> FALSE]

\* ms.Parse(data, "<STDIN>")
Parse(set, data) ==
  IF data = 0
  THEN [ms |-> set, err |-> TRUE]
  ELSE [ms |-> set \cup {Module(data, StdinSource)}, err |-> FALSE]

\* ms.Process(): the batch of errors of semantic processing.
Process(set) == [k \in 1..semErrs |-> Line("process", <<k>>)]

\* yang.ToEntry
ToEntry(m) == [Name |-> m.Name, Node |-> m]

\* yang.GetModule(name, sources...): the sources are read in order and the
\* first failure is returned; a name none of them defines is looked up on
\* yang.Path; the set is processed; the module's entry is returned.
RECURSIVE ReadSources(_, _, _)
ReadSources(set, srcs, done) ==
  IF srcs = <<>> THEN [ms |-> set, reads |-> done, errs |-> <<>>]
  ELSE LET r == Read(set, Head(srcs).name)
           d == Append(done, Head(srcs).name)
       IN IF r.err
          THEN [ms |-> set, reads |-> d, errs |-> <<Line("read", <<Head(srcs).name>>)>>]
          ELSE ReadSources(r.ms, Tail(srcs), d)

GetModule(name, srcs) ==
  LET r == ReadSources(NewModules, srcs, <<>>)
      found == \E m \in r.ms : m.Name = name.name
      set == IF found \/ ~pathHas THEN r.ms
             ELSE r.ms \cup {Module(name.name, PathSource)}
      rd == IF found THEN r.reads ELSE Append(r.reads, PathSource)
      mod == CHOOSE m \in set : /\ m.Name = name.name
                                /\ \A o \in set : o.Name = m.Name => o.Source <= m.Source
  IN IF r.errs # <<>> THEN [e |-> <<>>, errs |-> r.errs, reads |-> r.reads]
     ELSE IF ~found /\ ~pathHas
          THEN [e |-> <<>>, errs |-> <<Line("not found", <<name.name>>)>>, reads |-> rd]
     ELSE IF Process(set) # <<>>
          THEN [e |-> <<>>, errs |-> Process(set), reads |-> rd]
     ELSE [e |-> <<ToEntry(mod)>>, errs |-> <<>>, reads |-> rd]

----------------------------------------------------------------------------
\* Leaving the process

\* os.Exit(c)
OsExit(c) == exitCode' = c /\ pc' = "exited"

StopNoTrace(c) == OsExit(c) /\ UNCHANGED tracing

\* stop(c): os.Exit, or with --trace func(c) { trace.Stop(); os.Exit(c) }
Stop(c) ==
  /\ OsExit(c)
  /\ tracing' = IF stop = "traceStop" THEN FALSE ELSE tracing

\* main returns: the deferred trace.Stop runs, exit status 0
Return ==
  /\ OsExit(0)
  /\ tracing' = IF deferred THEN FALSE ELSE tracing

ExitFirstOnly(errs) ==
  IF Len(errs) > 0
  THEN stderr' = Append(stderr, errs[1]) /\ Stop(1)
  ELSE stderr' = stderr

\* exitIfError(errs): every error is written and the process stops; when
\* errs is empty nothing is written and the caller goes on.
exitIfError(errs) ==
  IF Len(errs) > 0
  THEN stderr' = stderr \o errs /\ Stop(1)
  ELSE stderr' = stderr

----------------------------------------------------------------------------
Init ==
  /\ formatters \in SUBSET FormatNames
  /\ format \in RequestedFormats
  /\ traceP \in {"", "ok", "bad"}
  /\ help \in BOOLEAN
  /\ files \in ArgLists
  /\ stdinData \in (IF files = <<>> THEN {0} \cup ModuleNames ELSE {0})
  /\ semErrs \in 0..MaxErrs
  /\ pathHas \in (IF files # <<>> /\ ~HasSuffixYang(files[1]) THEN BOOLEAN ELSE {FALSE})
  /\ pc = "start"
  /\ formats = <<>>
  /\ stop = "os.Exit"
  /\ deferred = FALSE
  /\ tracing = FALSE
  /\ ms = {}
  /\ idx = 1
  /\ todo = {}
  /\ mods = <<>>
  /\ names = <<>>
  /\ entries = <<>>
  /\ reads = <<>>
  /\ processCalls = 0
  /\ invoked = <<>>
  /\ stdout = <<>>
  /\ stderr = <<>>
  /\ exitCode = 0 - 1
  /\ run = 1
  /\ first = [stdout |-> <<>>, invoked |-> <<>>, exitCode |-> 0 - 1]

\* lines 79-93: the format names are collected from the registry and sorted
Start ==
  /\ pc = "start"
  /\ \E order \in Orders(formatters) : formats' = SortStrings(order)
  /\ pc' = "trace"
  /\ UNCHANGED <<inputs, ms, idx, todo, mods, names, entries, traceState,
                 effects, exitCode, run, first>>

\* lines 95-104
TraceSetup ==
  /\ pc = "trace"
  /\ \/ /\ traceP = ""
        /\ pc' = "help"
        /\ UNCHANGED <<traceState, stderr, exitCode>>
     \/ /\ traceP = "bad"
        /\ stderr' = Append(stderr, Line("create", <<>>))
        /\ OsExit(1)
        /\ UNCHANGED traceState
     \/ /\ traceP = "ok"
        /\ tracing' = TRUE
        /\ stop' = "traceStop"
        /\ deferred' = TRUE
        /\ pc' = "help"
        /\ UNCHANGED <<stderr, exitCode>>
  /\ UNCHANGED <<inputs, locals, reads, processCalls, invoked, stdout, run, first>>

HelpLines == [x \in DOMAIN formats |-> Line("format help", <<formats[x]>>)]

HelpAfterFormatCheck ==
  /\ pc = "help"
  /\ IF format \notin formatters
     THEN /\ stderr' = Append(stderr, Line("invalid format", <<format>> \o formats))
          /\ Stop(1)
     ELSE IF help
     THEN /\ stderr' = stderr \o <<Line("usage", formats), Line("Formats:", <<>>)>> \o HelpLines
          /\ Stop(0)
     ELSE /\ pc' = "format"
          /\ UNCHANGED <<stderr, tracing, exitCode>>
  /\ UNCHANGED <<inputs, locals, stop, deferred, reads, processCalls, invoked,
                 stdout, run, first>>

\* lines 106-114
Help ==
  /\ pc = "help"
  /\ IF help
     THEN /\ stderr' = stderr \o <<Line("usage", formats), Line("Formats:", <<>>)>> \o HelpLines
          /\ Stop(0)
     ELSE /\ pc' = "format"
          /\ UNCHANGED <<stderr, tracing, exitCode>>
  /\ UNCHANGED <<inputs, locals, stop, deferred, reads, processCalls, invoked,
                 stdout, run, first>>

FormatCheckUnsorted ==
  /\ pc = "format"
  /\ IF format \notin formatters
     THEN /\ \E order \in Orders(formatters) :
               stderr' = Append(stderr, Line("invalid format", <<format>> \o order))
          /\ Stop(1)
     ELSE /\ pc' = "args"
          /\ UNCHANGED <<stderr, tracing, exitCode>>
  /\ UNCHANGED <<inputs, locals, stop, deferred, reads, processCalls, invoked,
                 stdout, run, first>>

\* lines 116-120
FormatCheck ==
  /\ pc = "format"
  /\ IF format \notin formatters
     THEN /\ stderr' = Append(stderr, Line("invalid format", <<format>> \o formats))
          /\ Stop(1)
     ELSE /\ pc' = "args"
          /\ UNCHANGED <<stderr, tracing, exitCode>>
  /\ UNCHANGED <<inputs, locals, stop, deferred, reads, processCalls, invoked,
                 stdout, run, first>>

\* lines 122-129: MODULE [FILE ...]
NamedModule ==
  /\ pc = "args"
  /\ Len(files) > 0 /\ ~HasSuffixYang(files[1])
  /\ LET r == GetModule(files[1], Tail(files))
     IN /\ reads' = reads \o r.reads
        /\ exitIfError(r.errs)
        /\ IF Len(r.errs) > 0
           THEN UNCHANGED stdout
           ELSE /\ stdout' = Append(stdout, [by |-> "Write", format |-> 0, entries |-> r.e])
                /\ Return
  /\ UNCHANGED <<inputs, locals, stop, deferred, processCalls, invoked, run, first>>

\* lines 122-134: [FILE ...] or no argument
FileList ==
  /\ pc = "args"
  /\ ~(Len(files) > 0 /\ ~HasSuffixYang(files[1]))
  /\ ms' = NewModules
  /\ pc' = IF Len(files) = 0 THEN "stdin" ELSE "read"
  /\ UNCHANGED <<inputs, formats, idx, todo, mods, names, entries, traceState,
                 effects, exitCode, run, first>>

ReadStdinContinue ==
  /\ pc = "stdin"
  /\ reads' = Append(reads, StdinSource)
  /\ LET r == Parse(ms, stdinData)
     IN /\ ms' = r.ms
        /\ stderr' = IF r.err THEN Append(stderr, Line("read", <<StdinSource>>)) ELSE stderr
        /\ pc' = "read"
        /\ UNCHANGED <<tracing, exitCode>>
  /\ UNCHANGED <<inputs, formats, idx, todo, mods, names, entries, stop, deferred,
                 processCalls, invoked, stdout, run, first>>

\* lines 136-145: no argument, standard input is read and parsed
ReadStdin ==
  /\ pc = "stdin"
  /\ reads' = Append(reads, StdinSource)
  /\ LET r == Parse(ms, stdinData)
     IN IF r.err
        THEN /\ stderr' = Append(stderr, Line("read", <<StdinSource>>))
             /\ Stop(1)
             /\ UNCHANGED ms
        ELSE /\ ms' = r.ms
             /\ pc' = "read"
             /\ UNCHANGED <<stderr, tracing, exitCode>>
  /\ UNCHANGED <<inputs, formats, idx, todo, mods, names, entries, stop, deferred,
                 processCalls, invoked, stdout, run, first>>

ReadFileBreak ==
  /\ pc = "read"
  /\ idx <= Len(files)
  /\ reads' = Append(reads, files[idx].name)
  /\ LET r == Read(ms, files[idx].name)
     IN /\ ms' = r.ms
        /\ stderr' = IF r.err THEN Append(stderr, Line("read", <<files[idx].name>>))
                      ELSE stderr
        /\ idx' = IF r.err THEN Len(files) + 1 ELSE idx + 1
  /\ UNCHANGED <<inputs, pc, formats, todo, mods, names, entries, traceState,
                 processCalls, invoked, stdout, exitCode, run, first>>

\* lines 147-152: one iteration of the loop over the files
ReadFile ==
  /\ pc = "read"
  /\ idx <= Len(files)
  /\ reads' = Append(reads, files[idx].name)
  /\ LET r == Read(ms, files[idx].name)
     IN /\ ms' = r.ms
        /\ stderr' = IF r.err THEN Append(stderr, Line("read", <<files[idx].name>>))
                      ELSE stderr
  /\ idx' = idx + 1
  /\ UNCHANGED <<inputs, pc, formats, todo, mods, names, entries, traceState,
                 processCalls, invoked, stdout, exitCode, run, first>>

\* lines 154-160: exitIfError(ms.Process()), then mods and names are set up
ProcessModules ==
  /\ pc = "read"
  /\ idx > Len(files)
  /\ processCalls' = processCalls + 1
  /\ exitIfError(Process(ms))
  /\ IF Len(Process(ms)) > 0
     THEN UNCHANGED <<todo, mods, names>>
     ELSE /\ todo' = ms
          /\ mods' = <<>>
          /\ names' = <<>>
          /\ pc' = "range"
          /\ UNCHANGED <<tracing, exitCode>>
  /\ UNCHANGED <<inputs, formats, ms, idx, entries, stop, deferred, reads, invoked,
                 stdout, run, first>>

\* lines 162-167: one iteration of the range over ms.Modules, a map, whose
\* iteration order is not specified
RangeModules ==
  /\ pc = "range"
  /\ \E m \in todo :
       /\ todo' = todo \ {m}
       /\ IF m.Name \notin DOMAIN mods
          THEN /\ mods' = [n \in DOMAIN mods \cup {m.Name} |->
                             IF n = m.Name THEN m ELSE mods[n]]
               /\ names' = Append(names, m.Name)
          ELSE UNCHANGED <<mods, names>>
  /\ UNCHANGED <<inputs, pc, formats, ms, idx, entries, traceState, effects,
                 exitCode, run, first>>

\* lines 168-175: the names are sorted, the entries built, the formatter
\* called, and main returns
Output ==
  /\ pc = "range"
  /\ todo = {}
  /\ names' = SortStrings(names)
  /\ entries' = [x \in 1..Len(names') |-> ToEntry(mods[names'[x]])]
  /\ invoked' = Append(invoked, [format |-> format, entries |-> entries'])
  /\ stdout' = Append(stdout, [by |-> "f", format |-> format, entries |-> entries'])
  /\ Return
  /\ UNCHANGED <<inputs, formats, ms, idx, todo, mods, stop, deferred, reads,
                 processCalls, stderr, run, first>>

\* The command is run a second time on the same registry, command line and
\* input contents.
Rerun ==
  /\ pc = "exited"
  /\ run = 1
  /\ run' = 2
  /\ first' = [stdout |-> stdout, invoked |-> invoked, exitCode |-> exitCode]
  /\ pc' = "start"
  /\ formats' = <<>>
  /\ stop' = "os.Exit"
  /\ deferred' = FALSE
  /\ tracing' = FALSE
  /\ ms' = {}
  /\ idx' = 1
  /\ todo' = {}
  /\ mods' = <<>>
  /\ names' = <<>>
  /\ entries' = <<>>
  /\ reads' = <<>>
  /\ processCalls' = 0
  /\ invoked' = <<>>
  /\ stdout' = <<>>
  /\ stderr' = <<>>
  /\ exitCode' = 0 - 1
  /\ UNCHANGED inputs

Next ==
  \/ Start \/ TraceSetup \/ Help \/ FormatCheck \/ NamedModule \/ FileList
  \/ ReadStdin \/ ReadFile \/ ProcessModules \/ RangeModules \/ Output \/ Rerun

Spec == Init /\ [][Next]_vars

----------------------------------------------------------------------------
\* Vocabulary of the properties

Done == pc = "exited"
NamedMode == Len(files) > 0 /\ ~HasSuffixYang(files[1])
FileListMode == Len(files) > 0 /\ HasSuffixYang(files[1])
StdinMode == Len(files) = 0
\* The run passes the trace, help and format checks.
ReachesInput == ~help /\ format \in formatters /\ traceP # "bad"

\* The strictly ascending sequence of the elements of S.
SortedSeqOf(S) ==
  CHOOSE s \in [1..Cardinality(S) -> S] :
    /\ Range(s) = S
    /\ \A x, y \in DOMAIN s : x < y => s[x] < s[y]

NamesOf(set) == {m.Name : m \in set}
EntryNames(es) == [x \in DOMAIN es |-> es[x].Name]

\* The module names the well-formed sources of the command line define,
\* whatever the order the sources are given in.
GivenNames ==
  IF StdinMode THEN {stdinData} \ {0}
  ELSE {FileModule[files[x].name] : x \in DOMAIN files} \ {0}

\* The Module of name n that was loaded first.
FirstLoaded(n) ==
  IF StdinMode THEN Module(n, StdinSource)
  ELSE LET i == CHOOSE i \in DOMAIN files :
                  /\ FileModule[files[i].name] = n
                  /\ \A j \in DOMAIN files : j < i => FileModule[files[j].name] # n
       IN Module(n, files[i].name)

HasLine(kind) == \E x \in DOMAIN stderr : stderr[x].kind = kind

\* The last n lines of the error stream.
LastLines(n) == SubSeq(stderr, Len(stderr) - n + 1, Len(stderr))

----------------------------------------------------------------------------
\* C1: in file-list or stdin mode, a run that reaches output hands the
\* formatter exactly one tree per distinct module name of the model set, in
\* ascending name order, and that sequence of names depends neither on the
\* order of the input files nor on the order the model set is iterated in.
C1_TreesOnePerNameSorted ==
  (Done /\ invoked # <<>>) =>
    LET es == invoked[Len(invoked)].entries
    IN /\ Len(es) = Cardinality(NamesOf(ms))
       /\ EntryNames(es) = SortedSeqOf(NamesOf(ms))
       /\ EntryNames(es) = SortedSeqOf(GivenNames)

C1_Witness ==
  /\ Done /\ invoked # <<>>
  /\ Len(files) = 2
  /\ FileModule[files[1].name] > FileModule[files[2].name]
  /\ FileModule[files[2].name] # 0
  /\ Len(invoked[1].entries) = 2

\* C2: when two Modules of one name are loaded from two files, exactly one
\* tree is produced for the name, built from the Module loaded first.
C2_FirstLoadedWins ==
  (Done /\ invoked # <<>>) =>
    LET es == invoked[Len(invoked)].entries
    IN \A n \in NamesOf(ms) :
         /\ Cardinality({x \in DOMAIN es : es[x].Name = n}) = 1
         /\ \A x \in DOMAIN es : es[x].Name = n => es[x].Node = FirstLoaded(n)

\* C3 as stated: --help always ends the run with exit status 0 and without
\* reading any input, whatever the other flags and arguments, a --trace file
\* that cannot be created included.
C3_HelpAlwaysExitsZero ==
  (Done /\ help) => exitCode = 0 /\ reads = <<>> /\ processCalls = 0

\* C3 amended: --help ends the run without reading any input, with exit
\* status 0 unless the --trace file cannot be created, and then with 1.
C3_HelpExitsBeforeInput ==
  (Done /\ help) =>
    /\ reads = <<>> /\ processCalls = 0 /\ invoked = <<>> /\ stdout = <<>>
    /\ exitCode = IF traceP = "bad" THEN 1 ELSE 0

C3_Witness ==
  /\ Done /\ help /\ exitCode = 0
  /\ format \notin formatters /\ traceP = "ok" /\ Len(files) = MaxArgs
  /\ HasLine("usage")

\* C4: a run that reaches the output stage invokes the render function
\* registered under the requested format exactly once, with standard output
\* and the resolved trees, in named-module mode as in the other modes.
C4_FormatterInvokedOnce ==
  (Done /\ exitCode = 0 /\ ~help) =>
    /\ Len(invoked) = 1
    /\ invoked[1].format = format
    /\ stdout = <<[by |-> "f", format |-> format, entries |-> invoked[1].entries]>>

\* C5 as stated: an unregistered --format (without --help) ends the run with
\* status 1 after the sorted list of registered names is printed, before any
\* input is read and without a formatter call; a registered one never makes
\* the format check end the run.
C5_InvalidFormatListed ==
  /\ (Done /\ ~help /\ format \notin formatters) =>
       /\ exitCode = 1
       /\ stderr # <<>>
       /\ stderr[Len(stderr)] =
            Line("invalid format", <<format>> \o SortedSeqOf(formatters))
       /\ reads = <<>> /\ processCalls = 0 /\ invoked = <<>> /\ stdout = <<>>
  /\ format \in formatters => ~HasLine("invalid format")

\* C5 amended: as stated when the --trace file, if one is given, can be
\* created; when it cannot, the run ends with status 1 before the format
\* names are listed, also without reading input or calling a formatter.
C5_InvalidFormatListedUnlessTraceFails ==
  /\ (Done /\ ~help /\ format \notin formatters) =>
       /\ exitCode = 1
       /\ reads = <<>> /\ processCalls = 0 /\ invoked = <<>> /\ stdout = <<>>
       /\ IF traceP = "bad"
          THEN stderr = <<Line("create", <<>>)>>
          ELSE stderr = <<Line("invalid format", <<format>> \o SortedSeqOf(formatters))>>
  /\ format \in formatters => ~HasLine("invalid format")

C5_Witness ==
  /\ Done /\ ~help /\ format \notin formatters /\ exitCode = 1
  /\ Cardinality(formatters) >= 2
  /\ HasLine("invalid format")
  /\ Len(files) > 0

\* C6: in file-list mode a file that fails to read or parse is reported on
\* the error stream and the run goes on: the remaining files are read in
\* order, semantic processing is called once afterwards, and when it reports
\* no error the formatter gets the modules of the files that loaded and the
\* run exits 0.
C6_FileFailureTolerated ==
  (FileListMode /\ ReachesInput) =>
    /\ pc = "read" => reads = [x \in 1..(idx - 1) |-> files[x].name]
    /\ pc \in {"range", "exited"} =>
         /\ reads = [x \in DOMAIN files |-> files[x].name]
         /\ processCalls = 1
         /\ \A x \in DOMAIN files :
              FileModule[files[x].name] = 0 =>
                \E y \in DOMAIN stderr : stderr[y] = Line("read", <<files[x].name>>)
    /\ (Done /\ semErrs = 0) =>
         /\ exitCode = 0
         /\ Len(invoked) = 1
         /\ Range(EntryNames(invoked[1].entries)) = GivenNames
         /\ \A x \in DOMAIN invoked[1].entries :
              \E m \in ms : invoked[1].entries[x] = ToEntry(m)

C6_Witness ==
  /\ FileListMode /\ Done /\ exitCode = 0
  /\ Len(files) = 2
  /\ FileModule[files[1].name] = 0
  /\ FileModule[files[2].name] # 0
  /\ Len(invoked) = 1
  /\ EntryNames(invoked[1].entries) = <<FileModule[files[2].name]>>
  /\ stderr = <<Line("read", <<files[1].name>>)>>

\* C7: a non-empty error batch from ms.Process or yang.GetModule is written
\* in full to the error stream and ends the run with status 1, with no tree
\* built, no formatter called and nothing on standard output; an empty batch
\* writes nothing and the run goes on.
C7_ErrorBatchTerminal ==
  /\ (Done /\ processCalls = 1 /\ Process(ms) # <<>>) =>
       /\ Len(stderr) >= Len(Process(ms))
       /\ LastLines(Len(Process(ms))) = Process(ms)
       /\ exitCode = 1
       /\ entries = <<>> /\ invoked = <<>> /\ stdout = <<>>
  /\ (Done /\ ReachesInput /\ NamedMode
        /\ GetModule(files[1], Tail(files)).errs # <<>>) =>
       /\ stderr = GetModule(files[1], Tail(files)).errs
       /\ exitCode = 1
       /\ entries = <<>> /\ invoked = <<>> /\ stdout = <<>>
  /\ (processCalls = 1 /\ Process(ms) = <<>>) =>
       /\ ~HasLine("process")
       /\ pc = "range" \/ (Done /\ exitCode = 0)
  /\ (Done /\ ReachesInput /\ NamedMode
        /\ GetModule(files[1], Tail(files)).errs = <<>>) =>
       stderr = <<>> /\ exitCode = 0

C7_Witness ==
  /\ Done /\ processCalls = 1 /\ exitCode = 1
  /\ Len(Process(ms)) >= 2
  /\ Len(stderr) > Len(Process(ms))
  /\ ms # {}

\* C8: with --trace given and the trace started, the trace is stopped before
\* the process ends, on every exit path; until then it is running.
C8_TraceStoppedOnExit ==
  /\ Done => ~tracing
  /\ (traceP = "ok" /\ pc \notin {"start", "trace", "exited"}) => tracing

C8_Witness ==
  /\ Done /\ traceP = "ok" /\ ~tracing
  /\ exitCode = 1 /\ processCalls = 1

\* C9: two runs on the same input contents, arguments and flags hand the
\* same trees in the same order to the same formatter and write the same
\* output, also when several Modules share a name and the model set is
\* iterated in a different order.
C9_RunsAgree ==
  (run = 2 /\ Done) =>
    /\ invoked = first.invoked
    /\ stdout = first.stdout
    /\ exitCode = first.exitCode

\* C10: in stdin mode a failure to read or parse standard input is written
\* to the error stream and ends the run with status 1, with no semantic
\* processing, no formatter call and nothing on standard output; standard
\* input is read only when there is no argument.
C10_StdinFailureTerminal ==
  /\ (Done /\ StdinMode /\ ReachesInput /\ stdinData = 0) =>
       /\ stderr = <<Line("read", <<StdinSource>>)>>
       /\ exitCode = 1
       /\ processCalls = 0 /\ invoked = <<>> /\ stdout = <<>>
  /\ (\E x \in DOMAIN reads : reads[x] = StdinSource) => StdinMode

C10_Witness ==
  /\ Done /\ StdinMode /\ stdinData = 0
  /\ reads = <<StdinSource>>
  /\ exitCode = 1 /\ traceP = "ok"
====
